---- MODULE Spec2Model ----
(***************************************************************************)
(* Model of the weighted multiplicative-update NMF engine of algorithm.py: *)
(* the driver nmf, the update step mur, the residual err, the weight       *)
(* functions and the ALGORITHMS registry.                                   *)
(*                                                                         *)
(* Numbers.  The program computes in IEEE double precision.  The model     *)
(* keeps the structure of that arithmetic (finite values, +inf, -inf, nan, *)
(* overflow to inf, underflow to 0, nan-propagation, x/0) at a reduced     *)
(* width: a finite value is an integer count of 1/Scale units with         *)
(* magnitude at most MaxV, results are truncated toward zero, and zero is  *)
(* unsigned.  np.tanh and np.exp are replaced by rational functions with   *)
(* the same range, monotonicity and values at 0 and at infinity.           *)
(***************************************************************************)
EXTENDS Integers, Sequences, FiniteSets, TLC

\* ------------------------------------------------------------- bounds
Scale == 1000        \* units per 1.0 (precision of the number format)
MaxV == 1000000      \* largest finite magnitude, in units (range of the format)
MaxRank == 2         \* ranks K tried are -1 .. MaxRank
MaxSteps == 2        \* step budgets tried are 0 and MaxSteps
MaxDraws == 1        \* draws other code takes from the global generator between calls

\* ------------------------------------------------------------- numbers
PInf == MaxV + 1
NInf == -(MaxV + 1)
NaN == MaxV + 2
One == Scale

IsNaN(a) == a = NaN
IsInf(a) == a = PInf \/ a = NInf
IsFin(a) == a >= -MaxV /\ a <= MaxV
FromInt(n) == n * Scale
Sat(n) == IF n > MaxV THEN PInf ELSE IF n < -MaxV THEN NInf ELSE n
Sgn(a) == IF a > 0 THEN 1 ELSE IF a < 0 THEN -1 ELSE 0
Mag(a) == IF a < 0 THEN -a ELSE a

Neg(a) == IF IsNaN(a) THEN NaN ELSE -a
Abs(a) == IF IsNaN(a) THEN NaN ELSE Mag(a)

Add(a, b) ==
    IF IsNaN(a) \/ IsNaN(b) THEN NaN
    ELSE IF IsInf(a) THEN (IF IsInf(b) /\ b # a THEN NaN ELSE a)
    ELSE IF IsInf(b) THEN b
    ELSE Sat(a + b)

Sub(a, b) == Add(a, Neg(b))

Mul(a, b) ==
    IF IsNaN(a) \/ IsNaN(b) THEN NaN
    ELSE IF IsInf(a) \/ IsInf(b)
         THEN (IF a = 0 \/ b = 0 THEN NaN
               ELSE IF Sgn(a) * Sgn(b) > 0 THEN PInf ELSE NInf)
    ELSE LET x == Mag(a)
             y == Mag(b)
             q == (x \div Scale) * y + ((x % Scale) * y) \div Scale
         IN  Sat(Sgn(a) * Sgn(b) * q)

Div(a, b) ==
    IF IsNaN(a) \/ IsNaN(b) THEN NaN
    ELSE IF IsInf(a)
         THEN (IF IsInf(b) THEN NaN
               ELSE IF (a > 0) = (b >= 0) THEN PInf ELSE NInf)
    ELSE IF IsInf(b) THEN 0
    ELSE IF b = 0
         THEN (IF a = 0 THEN NaN ELSE IF a > 0 THEN PInf ELSE NInf)
    ELSE Sat(Sgn(a) * Sgn(b) * ((Mag(a) * Scale) \div Mag(b)))

\* a < b as the floating-point comparison: false when either side is nan
LT(a, b) == ~IsNaN(a) /\ ~IsNaN(b) /\ a < b
\* a >= 0 as the floating-point comparison
GE0(a) == ~IsNaN(a) /\ a >= 0

RECURSIVE SqrtSearch(_, _, _)
SqrtSearch(n, lo, hi) ==
    IF lo >= hi THEN lo
    ELSE LET mid == (lo + hi + 1) \div 2
         IN  IF mid * mid <= n THEN SqrtSearch(n, mid, hi)
             ELSE SqrtSearch(n, lo, mid - 1)
\* integer square root of n, 0 <= n < 2^31
ISqrt(n) == SqrtSearch(n, 0, 46340)

Sqrt(a) ==
    IF IsNaN(a) \/ a < 0 THEN NaN
    ELSE IF a = PInf THEN PInf
    ELSE ISqrt(a * Scale)

\* a ** e for the exponents beta - 2 and beta - 1 of beta in {1, 2}
Pow(a, e) ==
    IF e = 0 THEN One
    ELSE IF e = 1 THEN a
    ELSE Div(One, a)

\* np.tanh: odd, increasing, tanh(0) = 0, tanh(inf) = 1, |tanh| <= 1
Tanh(a) ==
    IF IsNaN(a) THEN NaN
    ELSE IF a = PInf THEN One
    ELSE IF a = NInf THEN -One
    ELSE Sgn(a) * ((Mag(a) * Scale) \div (Scale + Mag(a)))

\* np.exp: positive, increasing, exp(0) = 1, exp(-inf) = 0, exp(inf) = inf
Exp(a) ==
    IF IsNaN(a) THEN NaN
    ELSE IF a = PInf THEN PInf
    ELSE IF a = NInf THEN 0
    ELSE IF a >= 0 THEN Sat(Scale + a)
    ELSE (Scale * Scale) \div (Scale - a)

\* ------------------------------------------------------------- vectors, matrices
\* F applied to the value of v, with v computed once
Let(v, F(_)) == CHOOSE r \in {F(x) : x \in {v}} : TRUE

RECURSIVE SumTo(_, _)
SumTo(s, n) == IF n = 0 THEN 0 ELSE Add(SumTo(s, n - 1), s[n])
\* the sum of a list of numbers, left to right
SumSeq(s) == Let(s, LAMBDA v : SumTo(v, Len(v)))

RECURSIVE IntSumTo(_, _)
IntSumTo(s, n) == IF n = 0 THEN 0 ELSE IntSumTo(s, n - 1) + s[n]
\* plain integer sum (no saturation), for exact sums of squares
IntSum(s) == Let(s, LAMBDA v : IntSumTo(v, Len(v)))

RECURSIVE MaxTo(_, _)
MaxTo(s, n) ==
    IF n = 1 THEN s[1]
    ELSE Let(MaxTo(s, n - 1), LAMBDA r :
            IF IsNaN(r) \/ IsNaN(s[n]) THEN NaN ELSE IF s[n] > r THEN s[n] ELSE r)
\* np.max: the largest entry, nan if any entry is nan
MaxSeq(s) == Let(s, LAMBDA v : MaxTo(v, Len(v)))

RECURSIVE FlattenTo(_, _)
FlattenTo(A, n) == IF n = 0 THEN << >> ELSE FlattenTo(A, n - 1) \o A[n]
\* the entries of a matrix, row by row
Flatten(A) == Let(A, LAMBDA v : FlattenTo(v, Len(v)))

Rows(A) == Len(A)
Cols(A) == IF A = << >> THEN 0 ELSE Len(A[1])

\* A @ B for A of shape (n, k) and B of shape (k, m)
MatMul(A, B, n, k, m) ==
    Let(A, LAMBDA a : Let(B, LAMBDA b :
        [i \in 1..n |-> [j \in 1..m |-> SumSeq([l \in 1..k |-> Mul(a[i][l], b[l][j])])]]))

\* A.T for A of shape (r, c)
Transpose(A, r, c) == Let(A, LAMBDA a : [j \in 1..c |-> [i \in 1..r |-> a[i][j]]])

\* numpy broadcasting of A (shape (1,1), (1,c), (r,1) or (r,c)) to shape (r, c)
Bcast(A, r, c) ==
    Let(A, LAMBDA a :
        [i \in 1..r |-> [j \in 1..c |->
            a[IF Rows(a) = 1 THEN 1 ELSE i][IF Cols(a) = 1 THEN 1 ELSE j]]])

Map2(Op(_, _), A, B, r, c) ==
    Let(A, LAMBDA a : Let(B, LAMBDA b :
        [i \in 1..r |-> [j \in 1..c |-> Op(a[i][j], b[i][j])]]))
Map1(Op(_), A, r, c) == Let(A, LAMBDA a : [i \in 1..r |-> [j \in 1..c |-> Op(a[i][j])]])

Sq(a) == Let(a, LAMBDA x : Mul(x, x))

\* sqrt(sum(abs(s)**2)) of a list of numbers: np.linalg.norm of a vector, and
\* the Frobenius norm of a matrix given by its entries
Norm2Of(s) ==
    IF \E i \in 1..Len(s) : IsNaN(s[i]) THEN NaN
    ELSE IF \E i \in 1..Len(s) : IsInf(s[i]) THEN PInf
    ELSE IF \A i \in 1..Len(s) : Mag(s[i]) <= 10 * Scale
         THEN Sat(ISqrt(IntSum([i \in 1..Len(s) |-> s[i] * s[i]])))
    ELSE Sat(Scale * ISqrt(IntSum([i \in 1..Len(s) |->
                        (Mag(s[i]) \div Scale) * (Mag(s[i]) \div Scale)])))
Norm2(s) == Let(s, LAMBDA v : Norm2Of(v))

\* ------------------------------------------------------------- the program
NRows(X) == Rows(X)
NCols(X) == Cols(X)
\* W.shape[1], read off H (W has shape (n, k), H has shape (k, m))
Rank(H) == Rows(H)

\* elementwise A * B, A ** e, A ** 2 and 1 - A for arrays of shape (r, c)
Had(A, B, r, c) == Map2(Mul, A, B, r, c)
PowM(A, e, r, c) == Let(A, LAMBDA a : [i \in 1..r |-> [j \in 1..c |-> Pow(a[i][j], e)]])
SqM(A, r, c) == Map1(Sq, A, r, c)
OneMinus(a) == Sub(One, a)

\* err: X - W @ H
err(X, W, H) ==
    Map2(Sub, X, MatMul(W, H, NRows(X), Rank(H), NCols(X)), NRows(X), NCols(X))

\* A weight value is [shape, val]: val is the array as numpy would broadcast it,
\* (1,1) for a scalar, (1,m) for a vector of length m, (n,m) for a matrix.
Scalar(v) == [shape |-> "scalar", val |-> << <<v>> >>]
Vector(s) == [shape |-> "vector", val |-> <<s>>]
Matrix(A) == [shape |-> "matrix", val |-> A]

\* the default weight of nmf: lambda x, w, h: 1
uniform_weight(X, W, H) == Scalar(One)

\* the shape parameter p of tanh_weight (default)
tanh_p == 1

tanh_weight(X, W, H) ==
    Let(err(X, W, H), LAMBDA E :
    Let(Div(FromInt(NRows(X) * NCols(X) * tanh_p),
            SumSeq(Flatten(SqM(E, NRows(X), NCols(X))))), LAMBDA a :
        Matrix([i \in 1..NRows(X) |-> [j \in 1..NCols(X) |->
            Mul(a, Sub(One, Sq(Tanh(Mul(a, Abs(E[i][j]))))))]])))

cim_weight(X, W, H) ==
    Let(SqM(err(X, W, H), NRows(X), NCols(X)), LAMBDA E2 :
    Let(Div(SumSeq(Flatten(E2)), FromInt(NRows(X) * NCols(X))), LAMBDA mean :
        Matrix([i \in 1..NRows(X) |-> [j \in 1..NCols(X) |->
            Exp(Div(Neg(E2[i][j]), mean))]])))

\* np.linalg.norm(E, ord=1) of a 2-D array: the largest column sum of |E|
Norm1(E, n, m) ==
    Let(E, LAMBDA e : MaxSeq([j \in 1..m |-> SumSeq([i \in 1..n |-> Abs(e[i][j])])]))

l1_weight(X, W, H) == Scalar(Div(One, Norm1(err(X, W, H), NRows(X), NCols(X))))

\* faulty variant of l21_weight: the norm taken along axis=1, one entry per row
l21_weight_rows(X, W, H) ==
    Let(err(X, W, H), LAMBDA E :
        Vector([i \in 1..NRows(X) |-> Div(One, Norm2([j \in 1..NCols(X) |-> E[i][j]]))]))

\* 1 / np.linalg.norm(E, axis=0): one entry per column, a vector of length m
l21_weight(X, W, H) ==
    Let(err(X, W, H), LAMBDA E :
        Vector([j \in 1..NCols(X) |-> Div(One, Norm2([i \in 1..NRows(X) |-> E[i][j]]))]))

WeightNames == {"uniform", "tanh_weight", "cim_weight", "l1_weight", "l21_weight"}

\* weight(X, W, H) for the callable passed to nmf
Weight(w, X, W, H) ==
    CASE w = "uniform"     -> uniform_weight(X, W, H)
      [] w = "tanh_weight" -> tanh_weight(X, W, H)
      [] w = "cim_weight"  -> cim_weight(X, W, H)
      [] w = "l1_weight"   -> l1_weight(X, W, H)
      [] w = "l21_weight"  -> l21_weight(X, W, H)

\* tol of nmf (default)
DefaultTol == Scale \div 1000

\* ALGORITHMS: the entries built on nmf, as the (beta, weight) they pass.
\* nmf_baseline delegates to sklearn's solver and is not modelled.
ALGORITHMS ==
    [a \in {"nmf", "kl_nmf", "l1_nmf", "l21_nmf", "cim_nmf", "tanh_nmf"} |->
        CASE a = "nmf"      -> [beta |-> 2, weight |-> "uniform"]
          [] a = "kl_nmf"   -> [beta |-> 1, weight |-> "uniform"]
          [] a = "l1_nmf"   -> [beta |-> 2, weight |-> "l1_weight"]
          [] a = "l21_nmf"  -> [beta |-> 2, weight |-> "l21_weight"]
          [] a = "cim_nmf"  -> [beta |-> 2, weight |-> "cim_weight"]
          [] a = "tanh_nmf" -> [beta |-> 2, weight |-> "tanh_weight"]]

\* ---- mur: one weighted multiplicative update ----
\* U * X * WH**(beta - 2), shape (n, m)
NumCore(X, U, WH, beta) ==
    Had(Had(Bcast(U.val, NRows(X), NCols(X)), X, NRows(X), NCols(X)),
        PowM(WH, beta - 2, NRows(X), NCols(X)), NRows(X), NCols(X))

\* U * WH**(beta - 1), shape (n, m)
DenCore(X, U, WH, beta) ==
    Had(Bcast(U.val, NRows(X), NCols(X)), PowM(WH, beta - 1, NRows(X), NCols(X)),
        NRows(X), NCols(X))

\* num / (den + l1 + l2 * A), elementwise on shape (r, c)
Ratio(num, den, A, l1, l2, r, c) ==
    Let(num, LAMBDA nu : Let(den, LAMBDA de :
        [i \in 1..r |-> [j \in 1..c |->
            Div(nu[i][j], Add(Add(de[i][j], l1), Mul(l2, A[i][j])))]]))

\* d_W = U * X * WH**(beta - 2) @ H.T / (U * WH**(beta - 1) @ H.T + l1 + l2 * W)
DeltaW(X, W, H, U, WH, beta, l1, l2) ==
    Let(Transpose(H, Rank(H), NCols(X)), LAMBDA HT :
        Ratio(MatMul(NumCore(X, U, WH, beta), HT, NRows(X), NCols(X), Rank(H)),
              MatMul(DenCore(X, U, WH, beta), HT, NRows(X), NCols(X), Rank(H)),
              W, l1, l2, NRows(X), Rank(H)))

\* d_H = W.T @ (U * X * WH**(beta - 2)) / (W.T @ (U * WH**(beta - 1)) + l1 + l2 * H)
DeltaH(X, W, H, U, WH, beta, l1, l2) ==
    Let(Transpose(W, NRows(X), Rank(H)), LAMBDA WT :
        Ratio(MatMul(WT, NumCore(X, U, WH, beta), Rank(H), NRows(X), NCols(X)),
              MatMul(WT, DenCore(X, U, WH, beta), Rank(H), NRows(X), NCols(X)),
              H, l1, l2, Rank(H), NCols(X)))

\* np.linalg.norm(A * (1 - d)) for A, d of shape (r, c)
Deviation(A, d, r, c) == Norm2(Flatten(Had(A, Map1(OneMinus, d, r, c), r, c)))

\* line 127: WH = W @ H, with W already updated (WHold is the product of line 122)
\* faulty variant of RecomputeWH: line 127 left out, d_H sees the product of line 122
StaleWH(Wnew, H, WHold) == WHold

RecomputeWH(Wnew, H, WHold) == MatMul(Wnew, H, Rows(WHold), Rank(H), Cols(WHold))

\* line 131: the array whose deviation gives e_H; H *= d_H of line 130 has run,
\* so it is the updated H
EHBase(Hold, Hnew) == Hnew

mur(X, W, H, U, beta, l1, l2, tol) ==
    Let(MatMul(W, H, NRows(X), Rank(H), NCols(X)),                LAMBDA WH1 :
    Let(DeltaW(X, W, H, U, WH1, beta, l1, l2),                    LAMBDA d_W :
    Let(Deviation(W, d_W, NRows(X), Rank(H)),                     LAMBDA e_W :
    Let(Had(W, d_W, NRows(X), Rank(H)),                           LAMBDA W2 :
    Let(RecomputeWH(W2, H, WH1),                                  LAMBDA WH2 :
    Let(DeltaH(X, W2, H, U, WH2, beta, l1, l2),                   LAMBDA d_H :
    Let(Had(H, d_H, Rank(H), NCols(X)),                           LAMBDA H2 :
    Let(Deviation(EHBase(H, H2), d_H, Rank(H), NCols(X)),         LAMBDA e_H :
        [W |-> W2, H |-> H2, done |-> LT(e_W, tol) /\ LT(e_H, tol)]))))))))

\* ---- the global generator ----
\* np.random.rand after np.random.seed(0): the first draws of the stream, in 1/1000
RandTable == <<549, 715, 603, 545, 424, 646, 438, 892, 964, 383, 792, 529>>
\* the draw taken at generator state g (the table is read cyclically)
Rand(g) == (RandTable[(g % Len(RandTable)) + 1] * Scale) \div 1000

\* np.random.seed(0): the generator state after line 107
\* faulty variant of Reseed: line 107 left out, the generator keeps its position
ReseedKeep(g) == g

Reseed(g) == 0

\* avg = np.sqrt(X.mean() / K)
Avg(X, K) ==
    Sqrt(Div(Div(SumSeq(Flatten(X)), FromInt(NRows(X) * NCols(X))), FromInt(K)))

\* avg * np.random.rand(r, c), drawn from generator state g
ScaledRand(avg, r, c, g) ==
    Let(avg, LAMBDA v :
        [i \in 1..r |-> [j \in 1..c |-> Mul(v, Rand(g + (i - 1) * c + (j - 1)))]])

\* W of line 108
SeedW(X, K, g) == ScaledRand(Avg(X, K), NRows(X), K, g)

\* H of line 108, drawn after the draws of W
SeedH(X, K, g) == ScaledRand(Avg(X, K), K, NCols(X), g + NRows(X) * K)

\* for _ in range(steps): whether iteration number it + 1 is entered
\* faulty variant of LoopGuard: range(steps + 1)
LoopGuardInclusive(it, steps) == it <= steps

LoopGuard(it, steps) == it < steps

\* faulty variant of IterWeight: the weight computed before the loop and reused
IterWeightOnce(w, X, W, H, Uprev, it) == IF it = 0 THEN Weight(w, X, W, H) ELSE Uprev

\* lines 110-111: the weight handed to the update of iteration it + 1
IterWeight(w, X, W, H, Uprev, it) == Weight(w, X, W, H)

\* faulty variant of AfterStep: the break of line 113 left out
AfterStepNoBreak(d) == "loop"

\* lines 112-113: break on done, else back to the loop head
AfterStep(d) == IF d THEN "done" ELSE "loop"

\* faulty variant of DataAfter: U * X stored back into X
DataAfterInPlace(X, U) ==
    Had(Bcast(U.val, NRows(X), NCols(X)), X, NRows(X), NCols(X))

\* the data array after an update step: mur and the weight functions only read X
DataAfter(X, U) == X

\* ------------------------------------------------------------- inputs
Half == Scale \div 2
Tenth == Scale \div 10
M2(a, b, c, d) == << <<a, b>>, <<c, d>> >>

Data ==
    { M2(One, One, One, One), M2(One, 0, Half, One), M2(One, 0, One, 0),
      M2(0, 0, 0, 0), M2(-One, One, One, One), << <<Half, One>> >> }
Ranks == (-1)..MaxRank
Budgets == {0, MaxSteps}
\* (beta, weight) of a direct call: those of the registry and one more
Kinds == {ALGORITHMS[a] : a \in DOMAIN ALGORITHMS} \cup {[beta |-> 1, weight |-> "l21_weight"]}
\* (l1, l2) of a direct call
Regs == {<<0, 0>>, <<Tenth, 0>>, <<0, Tenth>>}
Tols == {DefaultTol, Half}
VariantNames == DOMAIN ALGORITHMS \cup {"svd_nmf"}

\* ------------------------------------------------------------- state
VARIABLES
    pc,          \* "idle", "loop" (inside nmf), "done" (nmf returned), "error" (raised)
    entry,       \* how nmf was reached: [via, name]
    X, K, par,   \* arguments of the running call; par = [steps, beta, l1, l2, weight, tol]
    W, H,        \* the factors
    it,          \* iterations of the for loop entered so far
    done,        \* the flag returned by the last mur
    U,           \* the weight passed to the last mur
    rng,         \* state of the global generator np.random
    draws,       \* draws taken by other code since the start or since the first call returned
    ncall,       \* calls made so far
    first,       \* (W, H) returned by the first call
    murCalls, weightCalls,   \* calls of mur and of the weight function in this run
    W0, H0,      \* the factors as seeded by this run
    preW, preH   \* the factors before the last iteration

vars == <<pc, entry, X, K, par, W, H, it, done, U, rng, draws, ncall, first,
          murCalls, weightCalls, W0, H0, preW, preH>>

NoWeight == [shape |-> "none", val |-> << >>]
NoPar == [steps |-> 0, beta |-> 2, l1 |-> 0, l2 |-> 0, weight |-> "uniform", tol |-> DefaultTol]
NoResult == [W |-> << >>, H |-> << >>]

Init ==
    /\ pc = "idle"
    /\ entry = [via |-> "none", name |-> ""]
    /\ X = << >> /\ K = 0 /\ par = NoPar
    /\ W = << >> /\ H = << >>
    /\ it = 0 /\ done = FALSE /\ U = NoWeight
    /\ rng = 0
    /\ draws = 0 /\ ncall = 0 /\ first = NoResult
    /\ murCalls = 0 /\ weightCalls = 0
    /\ W0 = << >> /\ H0 = << >> /\ preW = << >> /\ preH = << >>

\* nmf, lines 106-108: avg, np.random.seed(0), W and H drawn.
\* np.random.rand raises ValueError on a negative dimension (K < 0).
Enter(k, x, p, e) ==
    \E g \in {Reseed(rng)} : \E w \in {SeedW(x, k, g)} : \E h \in {SeedH(x, k, g)} :
        /\ X' = x /\ K' = k /\ par' = p /\ entry' = e
        /\ it' = 0 /\ done' = FALSE /\ U' = NoWeight
        /\ murCalls' = 0 /\ weightCalls' = 0
        /\ IF k < 0
           THEN /\ pc' = "error"
                /\ rng' = g
                /\ W' = << >> /\ H' = << >> /\ W0' = << >> /\ H0' = << >>
                /\ preW' = << >> /\ preH' = << >>
           ELSE /\ pc' = "loop"
                /\ rng' = (g + NRows(x) * k + k * NCols(x)) % Len(RandTable)
                /\ W' = w /\ H' = h /\ W0' = w /\ H0' = h /\ preW' = w /\ preH' = h

\* evaluate_algorithm, line 227: ALGORITHMS[algorithm](K, V, steps).
\* An unknown name raises KeyError before anything is called.
CallRegistry ==
    \E name \in VariantNames, k \in Ranks, x \in Data, s \in Budgets :
        /\ pc = "idle" /\ ncall = 0
        /\ ncall' = 1 /\ first' = first /\ draws' = 0
        /\ IF name \in DOMAIN ALGORITHMS
           THEN Enter(k, x, [steps |-> s, beta |-> ALGORITHMS[name].beta, l1 |-> 0, l2 |-> 0,
                             weight |-> ALGORITHMS[name].weight, tol |-> DefaultTol],
                      [via |-> "registry", name |-> name])
           ELSE /\ pc' = "error"
                /\ entry' = [via |-> "registry", name |-> name]
                /\ X' = x /\ K' = k /\ par' = [NoPar EXCEPT !.steps = s]
                /\ UNCHANGED <<W, H, it, done, U, rng, murCalls, weightCalls,
                               W0, H0, preW, preH>>

\* nmf called with its parameters given explicitly
CallNmf ==
    \E k \in Ranks, x \in Data, s \in Budgets, bw \in Kinds, reg \in Regs, t \in Tols :
        /\ pc = "idle" /\ ncall = 0
        /\ ncall' = 1 /\ first' = first /\ draws' = 0
        /\ Enter(k, x, [steps |-> s, beta |-> bw.beta, l1 |-> reg[1], l2 |-> reg[2],
                        weight |-> bw.weight, tol |-> t],
                 [via |-> "direct", name |-> "nmf"])

\* one iteration of the loop of nmf, lines 110-113
Iterate ==
    /\ pc = "loop" /\ LoopGuard(it, par.steps)
    /\ \E u \in {IterWeight(par.weight, X, W, H, U, it)} :
       \E r \in {mur(X, W, H, u, par.beta, par.l1, par.l2, par.tol)} :
           /\ W' = r.W /\ H' = r.H /\ done' = r.done /\ U' = u
           /\ X' = DataAfter(X, u)
           /\ pc' = AfterStep(r.done)
    /\ preW' = W /\ preH' = H
    /\ it' = it + 1 /\ murCalls' = murCalls + 1 /\ weightCalls' = weightCalls + 1
    /\ UNCHANGED <<entry, K, par, rng, draws, ncall, first, W0, H0>>

\* the loop of nmf is exhausted: line 115, return W, H
LoopExit ==
    /\ pc = "loop" /\ ~LoopGuard(it, par.steps)
    /\ pc' = "done"
    /\ UNCHANGED <<entry, X, K, par, W, H, it, done, U, rng, draws, ncall, first,
                   murCalls, weightCalls, W0, H0, preW, preH>>

\* other code (the noise functions, train_test_split) draws from np.random
EnvDraw ==
    /\ pc \in {"idle", "done"} /\ ncall < 2 /\ draws < MaxDraws
    /\ rng' = (rng + 1) % Len(RandTable)
    /\ draws' = draws + 1
    /\ UNCHANGED <<pc, entry, X, K, par, W, H, it, done, U, ncall, first,
                   murCalls, weightCalls, W0, H0, preW, preH>>

\* nmf called a second time with the arguments of the first call
Replay ==
    /\ pc = "done" /\ ncall = 1
    /\ ncall' = 2
    /\ first' = [W |-> W, H |-> H]
    /\ draws' = draws
    /\ Enter(K, X, par, entry)

Next == CallRegistry \/ CallNmf \/ Iterate \/ LoopExit \/ EnvDraw \/ Replay

Spec == Init /\ [][Next]_vars

\* ------------------------------------------------------------- properties
Running == pc \in {"loop", "done"}
Updated == Running /\ murCalls >= 1
Entries(A) == {A[i][j] : i \in DOMAIN A, j \in 1..Cols(A)}
AllGE0(A) == \A i \in DOMAIN A : \A j \in DOMAIN A[i] : GE0(A[i][j])
AllFin(A) == \A i \in DOMAIN A : \A j \in DOMAIN A[i] : IsFin(A[i][j])
\* the preconditions of a factorization: nonnegative data, rank >= 1
ValidInput == AllGE0(X) /\ K >= 1
\* the update factors of the last iteration, recomputed from the factors before it
LastWH1 == MatMul(preW, preH, NRows(X), Rank(preH), NCols(X))
LastDW == DeltaW(X, preW, preH, U, LastWH1, par.beta, par.l1, par.l2)
FreshWH == MatMul(W, preH, NRows(X), Rank(preH), NCols(X))
LastDH == DeltaH(X, W, preH, U, FreshWH, par.beta, par.l1, par.l2)
StaleDH == DeltaH(X, W, preH, U, LastWH1, par.beta, par.l1, par.l2)

\* C1: with nonnegative data and rank >= 1, every entry of W and H is >= 0
\* at seeding and after every update.
C1_Nonnegative == (Running /\ ValidInput) => (AllGE0(W) /\ AllGE0(H))

\* C2: with steps = 0 nmf makes no update and no weight call and returns the
\* seeded W and H.
C2_ZeroBudget ==
    (pc = "done" /\ par.steps = 0) =>
        /\ murCalls = 0 /\ weightCalls = 0 /\ it = 0
        /\ W = SeedW(X, K, 0) /\ H = SeedH(X, K, 0)
        /\ W = W0 /\ H = H0
C2_Witness == pc = "done" /\ par.steps = 0 /\ K >= 1 /\ ValidInput /\ W # << >>

\* the counters of a run: at most steps updates, none after a converged one
C3_Bounded ==
    /\ Running => (murCalls <= par.steps /\ murCalls = it)
    /\ (pc = "loop" /\ it >= 1) => ~done
    /\ pc = "done" => (done \/ murCalls = par.steps)
\* C3: nmf calls mur at most steps times, stops at the first iteration that
\* reports converged, returns after the steps-th update when none does, and
\* every step of the loop either returns or uses up one of the steps iterations.
C3_Terminates ==
    /\ []C3_Bounded
    /\ [][pc = "loop" =>
            (pc' = "done" \/ (pc' = "loop" /\ it' = it + 1 /\ it' <= par.steps))]_vars
C3_Witness == pc = "done" /\ ValidInput /\ ~done /\ murCalls = par.steps /\ par.steps >= 2
C3_WitnessEarly == pc = "done" /\ ValidInput /\ done /\ murCalls < par.steps

\* a call that breaks a precondition of factorize
HasNegative(A) == \E i \in DOMAIN A : \E j \in DOMAIN A[i] : ~IsNaN(A[i][j]) /\ A[i][j] < 0
Violation ==
    /\ ncall >= 1
    /\ \/ HasNegative(X)
       \/ K <= 0
       \/ (entry.via = "registry" /\ entry.name \notin DOMAIN ALGORITHMS)
\* C4: a negative data entry, a rank <= 0 or an unknown variant name fails at the
\* call boundary: no update step runs and no (W, H) is returned.
C4_FailsAtBoundary == Violation => (pc = "error" /\ murCalls = 0)

\* W is (rows, K) and H is (K, columns)
ShapeOK ==
    /\ Rows(W) = NRows(X) /\ \A i \in DOMAIN W : Len(W[i]) = K
    /\ Rows(H) = K /\ \A l \in DOMAIN H : Len(H[l]) = NCols(X)
\* C5: during a run the data matrix X and the rank K do not change, and W and H
\* keep the shapes (rows, K) and (K, columns).
C5_Frame ==
    /\ [](Running => ShapeOK)
    /\ [][pc = "loop" => (X' = X /\ K' = K /\ par' = par)]_vars
C5_Witness ==
    /\ Updated /\ ValidInput /\ U.shape = "matrix" /\ murCalls >= 2
    /\ W # W0 /\ H # H0 /\ AllFin(W) /\ AllFin(H)

\* C6: a second call with the arguments of the first returns the same (W, H),
\* whatever was drawn from the global generator before each call.
C6_Deterministic == (pc = "done" /\ ncall = 2) => (W = first.W /\ H = first.H)
C6_Witness ==
    /\ pc = "done" /\ ncall = 2 /\ draws >= 1 /\ ValidInput /\ murCalls >= 1
    /\ W = first.W /\ H = first.H /\ AllFin(W) /\ W # W0

\* C7: mur reports converged iff e_W < tol and e_H < tol, each e taken with the
\* factor as it is before its update is applied.
C7_ConvergedIff ==
    Updated =>
        (done <=> /\ LT(Deviation(preW, LastDW, NRows(X), Rank(preH)), par.tol)
                  /\ LT(Deviation(preH, LastDH, Rank(preH), NCols(X)), par.tol))

\* C8: d_H is computed from the updated W and from W @ H recomputed with it.
C8_FreshProduct ==
    Updated =>
        /\ W = Had(preW, LastDW, NRows(X), Rank(preH))
        /\ H = Had(preH, LastDH, Rank(preH), NCols(X))
C8_Witness ==
    /\ Updated /\ ValidInput /\ AllFin(W) /\ AllFin(H)
    /\ H # Had(preH, StaleDH, Rank(preH), NCols(X))

\* C9: the weight passed to an update is the weight function applied to X and to
\* the W, H left by the previous iteration, computed once per iteration.
C9_WeightPerIteration ==
    Updated =>
        /\ U = Weight(par.weight, X, preW, preH)
        /\ weightCalls = murCalls
C9_Witness ==
    /\ Updated /\ ValidInput /\ murCalls >= 2 /\ AllFin(U.val)
    /\ U # Weight(par.weight, X, W0, H0)

\* the residual the last weight was computed from
LastErr == err(X, preW, preH)
LastSumSq == SumSeq(Flatten(SqM(LastErr, NRows(X), NCols(X))))
NonzeroResidual == AllFin(LastErr) /\ \E e \in Entries(LastErr) : e # 0
\* the residual is finite, its sum of squares is nonzero and the scale
\* X.size / sum(E**2) is finite
ScalableResidual ==
    /\ AllFin(LastErr) /\ IsFin(LastSumSq) /\ LastSumSq > 0
    /\ IsFin(Div(FromInt(NRows(X) * NCols(X)), LastSumSq))
IsMatrixOfX(u) ==
    u.shape = "matrix" /\ Rows(u.val) = NRows(X) /\ \A i \in DOMAIN u.val : Len(u.val[i]) = NCols(X)
====
